---- MODULE Spec2Model ----
(***************************************************************************)
(* Chladni particle sketch (src/sketch.js): the particle behaviour policy, *)
(* the draw loop with its tallies, the control inputs and the sound        *)
(* parameters derived from the tallies.                                    *)
(*                                                                         *)
(* Reals are fixed point.  Lengths, velocities and forces are in 1/100 px  *)
(* (FP), cosine values and field magnitudes in 1/10000 (TRIG), sound       *)
(* frequencies in 1/100 Hz (HZ) and amplitudes in 1/AMP.  Divisions        *)
(* truncate, so a value is within one unit of the floating-point one.      *)
(*                                                                         *)
(* Left out: rendering (display, the overlay image), the recording         *)
(* functions and mousePressed(), which only starts the audio context.      *)
(***************************************************************************)
EXTENDS Integers, Sequences, FiniteSets

\* ------------------------------------------------------------ bounds
\* frames drawn
MaxFrames == 2
\* events from outside the draw loop: advances of the clock, slider moves
\* and key presses
MaxEvents == 3

\* ------------------------------------------------------------ units
FP == 10 * 10
TRIG == 100 * 100
HZ == 10 * 10

\* ------------------------------------------------------------ configuration
\* const NUM_PARTICLES = 9000, scaled down to two particles
NUM_PARTICLES == 2
CANVAS_WIDTH == 1080 * FP
CANVAS_HEIGHT == 1350 * FP
L_CHLADNI_SCALE == CANVAS_WIDTH \div 3
SCATTER_DURATION == 500
NUM_SETTLE_OSCILLATORS == 4
\* amplitudes are multiples of 1/AMP
AMP == 60 * NUM_PARTICLES
\* createSlider(1, 15, 1, 1)
SLIDER_MIN == 1
SLIDER_MAX == 15
SLIDER_START == 1
\* Particle constructor and behave() parameters
maxSpeed == (25 * FP) \div 10
maxForce == (4 * FP) \div 10
tolerance == (3 * TRIG) \div 100
checkDistance == 2 * FP
\* pi in units of 1/TRIG
PI == 31416

\* ------------------------------------------------------------ arithmetic
\* F(v) with v evaluated once, as a local variable of the code is
With(v, F(_)) == CHOOSE y \in {F(x) : x \in {v}} : TRUE

\* division truncating toward zero
TDiv(a, b) == IF a >= 0 THEN a \div b ELSE -((-a) \div b)

abs(a) == IF a < 0 THEN -a ELSE a

RECURSIVE GCD(_, _)
GCD(a, b) == IF b = 0 THEN abs(a) ELSE GCD(b, a % b)

RECURSIVE SqrtBetween(_, _, _)
SqrtBetween(n, lo, hi) ==
  IF lo >= hi THEN lo
  ELSE With((lo + hi + 1) \div 2,
            LAMBDA mid : IF mid * mid <= n THEN SqrtBetween(n, mid, hi)
                                           ELSE SqrtBetween(n, lo, mid - 1))

\* integer square root
sqrt(n) == With(n, LAMBDA v : SqrtBetween(v, 0, 40000))

\* p5 map(): (value - start1) / (stop1 - start1) * (stop2 - start2) + start2,
\* the ratio of the two spans reduced first so that products stay in range
map(value, start1, stop1, start2, stop2) ==
  LET g == GCD(stop2 - start2, stop1 - start1)
  IN start2 + ((value - start1) * ((stop2 - start2) \div g))
                 \div ((stop1 - start1) \div g)

constrain(a, low, high) == IF a < low THEN low ELSE IF a > high THEN high ELSE a

\* the Taylor polynomial of cos to t^8, t2 the square of the angle
cosTaylor(t2) ==
  LET h4 == TRIG - t2 \div 56
      h3 == TRIG - ((t2 * h4) \div TRIG) \div 30
      h2 == TRIG - ((t2 * h3) \div TRIG) \div 12
  IN TRIG - ((t2 * h2) \div TRIG) \div 2

\* cos of g * pi / L_CHLADNI_SCALE radians, g in the first quadrant
cosQuadrant(g) ==
  With((g * PI) \div L_CHLADNI_SCALE,
       LAMBDA t : With((t * t) \div TRIG, cosTaylor))

\* cos of the angle a * pi / L_CHLADNI_SCALE radians, in 1/TRIG: the angle is
\* folded into the first quadrant and the Taylor polynomial evaluated
cos(a) ==
  With(L_CHLADNI_SCALE - abs((a % (2 * L_CHLADNI_SCALE)) - L_CHLADNI_SCALE),
       LAMBDA f : IF 2 * f > L_CHLADNI_SCALE
                  THEN -cosQuadrant(L_CHLADNI_SCALE - f)
                  ELSE cosQuadrant(f))

\* sin of (hundredths / 100) radians, in 1/TRIG
sin(hundredths) ==
  cos((hundredths * (L_CHLADNI_SCALE \div 100) * TRIG) \div PI
        - L_CHLADNI_SCALE \div 2)

\* ------------------------------------------------------------ vectors
createVector(x, y) == <<x, y>>

add(v, w) == <<v[1] + w[1], v[2] + w[2]>>

\* v.mult(num / den)
mult(v, num, den) == <<TDiv(v[1] * num, den), TDiv(v[2] * num, den)>>

magSq(v) == v[1] * v[1] + v[2] * v[2]

mag(v) == sqrt(magSq(v))

\* v.limit(max): scaled back to length max when longer
limit(v, max) ==
  IF magSq(v) > max * max
  THEN With(mag(v), LAMBDA len : <<TDiv(v[1] * max, len), TDiv(v[2] * max, len)>>)
  ELSE v

\* v.normalize(): unit length, the zero vector unchanged
normalize(v) ==
  With(mag(v), LAMBDA len : IF len = 0 THEN v
                            ELSE <<TDiv(v[1] * FP, len), TDiv(v[2] * FP, len)>>)

\* p5.Vector.random2D(): a unit vector; the two directions along the main
\* diagonal are drawn (cos 45 = sin 45 = 0.7071)
random2D ==
  { <<TDiv(7071 * FP, TRIG), TDiv(7071 * FP, TRIG)>>,
    <<TDiv(-7071 * FP, TRIG), TDiv(-7071 * FP, TRIG)>> }

\* ------------------------------------------------------------ sound
\* variant: the complexity mapped from [0,40] instead of [2,40]
calculateFrequencyFromZero(m, n) ==
  LET complexity == (m * 12) + (n * 12)
      freq == map(complexity, 0, 40 * 10, 50 * HZ, 600 * HZ)
  IN freq

calculateFrequencyFromMN(m, n) ==
  LET complexity == (m * 12) + (n * 12)
      freq == map(complexity, 2 * 10, 40 * 10, 50 * HZ, 600 * HZ)
  IN freq

\* ------------------------------------------------------------ field
chladni(x, y, m_val, n_val) ==
  LET term1 == TDiv(cos(n_val * x) * cos(m_val * y), TRIG)
      term2 == TDiv(cos(m_val * x) * cos(n_val * y), TRIG)
  IN term1 - term2


\* ------------------------------------------------------------ state
VARIABLES
  particles,          \* the collection: [pos, vel, acc, isSettled] each
  stableM, stableN,   \* mode numbers
  patternShouldForm,
  lastScatterTime,
  sliderM, sliderN,   \* slider positions
  audioContextStarted,
  millis,             \* the clock millis() reads
  frameCount,
  pc,                 \* "idle" between frames, "loop" inside draw()
  idx,                \* draw(): the next particle of the for-of loop
  numSettledParticles, numMovingParticles,
  movementAmp, movementFilterFreq, baseFreq, overallSettleAmp,
  oscFreq, oscAmp,    \* what draw() sent to the four oscillators
  probe,              \* per particle, what its latest behave() call did
  lastInput,          \* latest control input: "none", "slider" or "key"
  scatterFrame,       \* frameCount at the latest scatter trigger, -1 if none
  scatterCount,       \* scatter triggers so far
  eventCount          \* events from outside the draw loop so far

vars == <<particles, stableM, stableN, patternShouldForm, lastScatterTime,
          sliderM, sliderN, audioContextStarted, millis, frameCount, pc, idx,
          numSettledParticles, numMovingParticles, movementAmp,
          movementFilterFreq, baseFreq, overallSettleAmp, oscFreq, oscAmp,
          probe, lastInput, scatterFrame, scatterCount, eventCount>>

simVars == <<particles, probe, frameCount, pc, idx, numSettledParticles,
             numMovingParticles>>

soundVars == <<movementAmp, movementFilterFreq, baseFreq, overallSettleAmp,
               oscFreq, oscAmp>>

controlVars == <<stableM, stableN, patternShouldForm, lastScatterTime,
                 sliderM, sliderN, audioContextStarted, lastInput,
                 scatterFrame, scatterCount, eventCount>>

\* ------------------------------------------------------------ Particle
\* the position random(CANVAS_WIDTH), random(CANVAS_HEIGHT) gives particle i:
\* (0.30, 300) beside the left edge, off the nodal lines of most modes, or
\* (540, 1349.80) beside the bottom edge, on a crest of the modes of unequal
\* parity
InitPosition(i) ==
  IF i % 2 = 1 THEN <<30, 300 * FP>> ELSE <<540 * FP, 1349 * FP + 80>>

Particle(position) ==
  [ pos |-> position,
    vel |-> createVector(0, 0),
    acc |-> createVector(0, 0),
    isSettled |-> FALSE ]

getChladniValue(x_coord, y_coord) ==
  With(<<map(x_coord, 0, CANVAS_WIDTH, -L_CHLADNI_SCALE, L_CHLADNI_SCALE),
         map(y_coord, 0, CANVAS_HEIGHT, -L_CHLADNI_SCALE, L_CHLADNI_SCALE)>>,
       LAMBDA scaled :
         With(chladni(scaled[1], scaled[2], stableM, stableN), abs))

applyForce(p, force) == [p EXCEPT !.acc = add(@, force)]

\* update(), the integration: velocity, speed limit, position, acceleration
integrate(p) ==
  With(limit(add(p.vel, p.acc), maxSpeed),
       LAMBDA v : [p EXCEPT !.vel = v, !.pos = add(p.pos, v),
                            !.acc = mult(@, 0, 1)])

\* variant: positions clamped to the canvas instead of wrapped
wrapClamped(pos) ==
  <<constrain(pos[1], 0, CANVAS_WIDTH), constrain(pos[2], 0, CANVAS_HEIGHT)>>

\* update(), the wrap around the canvas: the four ifs in order
wrap(pos) ==
  LET x1 == IF pos[1] < 0 THEN CANVAS_WIDTH ELSE pos[1]
      x2 == IF x1 > CANVAS_WIDTH THEN 0 ELSE x1
      y1 == IF pos[2] < 0 THEN CANVAS_HEIGHT ELSE pos[2]
      y2 == IF y1 > CANVAS_HEIGHT THEN 0 ELSE y1
  IN <<x2, y2>>

update(p) == [integrate(p) EXCEPT !.pos = wrap(@)]

\* behave(): the test of the scatter effect, on one reading of the clock
scatterActive(t) == t < lastScatterTime + SCATTER_DURATION

\* behave(), scatter effect up to update(): impulse and damping
scatterImpulse(p, dir) ==
  LET q == applyForce(p, mult(dir, 8, 10))
  IN [q EXCEPT !.vel = mult(@, 9, 10)]

\* +1 when the neighbour's value is below the particle's, -1 when above
vote(val, chladniVal) ==
  IF val < chladniVal THEN FP ELSE IF val > chladniVal THEN -FP ELSE 0

\* behave(), gradient descent: the four votes
steerVotes(p, chladniVal) ==
  With(<<getChladniValue(p.pos[1] + checkDistance, p.pos[2]),
         getChladniValue(p.pos[1] - checkDistance, p.pos[2]),
         getChladniValue(p.pos[1], p.pos[2] + checkDistance),
         getChladniValue(p.pos[1], p.pos[2] - checkDistance)>>,
       LAMBDA val :
         \* val: rightVal, leftVal, downVal, upVal
         createVector(vote(val[1], chladniVal) - vote(val[2], chladniVal),
                      vote(val[3], chladniVal) - vote(val[4], chladniVal)))

\* variant: the gradient-descent branch does not clear isSettled
patternFormingKeepsFlag(p, dir) ==
  With(getChladniValue(p.pos[1], p.pos[2]), LAMBDA chladniVal :
    IF chladniVal < tolerance
    THEN [p EXCEPT !.vel = mult(@, 8, 10), !.acc = mult(@, 0, 1),
                   !.isSettled = TRUE]
    ELSE With(steerVotes(p, chladniVal), LAMBDA steerForce :
           With(IF mag(steerForce) > 0
                THEN applyForce(p, mult(normalize(steerForce), maxForce, FP))
                ELSE applyForce(p, mult(dir, 1, 100)),
                LAMBDA q : [q EXCEPT !.vel = mult(@, 98, 100)])))

\* behave(), pattern forming logic up to update()
patternForming(p, dir) ==
  With(getChladniValue(p.pos[1], p.pos[2]), LAMBDA chladniVal :
    IF chladniVal < tolerance
    THEN [p EXCEPT !.vel = mult(@, 8, 10), !.acc = mult(@, 0, 1),
                   !.isSettled = TRUE]
    ELSE With(steerVotes(p, chladniVal), LAMBDA steerForce :
           With(IF mag(steerForce) > 0
                THEN applyForce(p, mult(normalize(steerForce), maxForce, FP))
                ELSE applyForce(p, mult(dir, 1, 100)),
                LAMBDA q : [q EXCEPT !.vel = mult(@, 98, 100), !.isSettled = FALSE])))

\* behave(), the particle as it stands when this.update() is called
beforeUpdate(p, forming, t, dir) ==
  IF scatterActive(t) THEN scatterImpulse(p, dir)
  ELSE IF forming THEN patternForming(p, dir)
  ELSE p

\* behave(forming) with the clock reading t and the random direction dir
behave(p, forming, t, dir) ==
  IF scatterActive(t)
  THEN [update(beforeUpdate(p, forming, t, dir)) EXCEPT !.isSettled = FALSE]
  ELSE update(beforeUpdate(p, forming, t, dir))

\* the branch behave() takes
branchOf(p, forming, t) ==
  IF scatterActive(t) THEN "scattering"
  ELSE IF ~forming THEN "idle"
  ELSE IF getChladniValue(p.pos[1], p.pos[2]) < tolerance THEN "settled"
  ELSE "descending"

\* the value the latest getChladniValue() call of this behave() returned
\* (the centre sample when settling, upVal when descending), else the old one
latestEval(p, forming, t, old) ==
  With(branchOf(p, forming, t), LAMBDA b :
    IF b = "settled" THEN getChladniValue(p.pos[1], p.pos[2])
    ELSE IF b = "descending"
         THEN getChladniValue(p.pos[1], p.pos[2] - checkDistance)
    ELSE old)

\* frame: the frame of the call (0: never called); branch: the branch taken;
\* triggered, elapsed: whether a scatter trigger had occurred and the time
\* read minus lastScatterTime; eval: the latest field magnitude returned for
\* the particle (-1: none yet); integrated: the position update() computed
\* before wrapping; forced: the force applied
NoProbe ==
  [frame |-> 0, branch |-> "none", triggered |-> FALSE, elapsed |-> 0,
   eval |-> -1, integrated |-> <<0, 0>>, forced |-> "none"]

\* the force behave() applied: "random" (random2D), "steer" or "none"
forceOf(p, forming, t) ==
  With(branchOf(p, forming, t), LAMBDA b :
    IF b = "scattering" THEN "random"
    ELSE IF b = "descending"
         THEN With(getChladniValue(p.pos[1], p.pos[2]), LAMBDA chladniVal :
                IF mag(steerVotes(p, chladniVal)) > 0 THEN "steer"
                ELSE "random")
    ELSE "none")

\* ------------------------------------------------------------ Init
Init ==
  /\ particles = [i \in 1..NUM_PARTICLES |-> Particle(InitPosition(i))]
  /\ stableM = 1 /\ stableN = 1
  /\ patternShouldForm = TRUE
  /\ lastScatterTime = 0
  /\ sliderM = SLIDER_START /\ sliderN = SLIDER_START
  /\ audioContextStarted = FALSE
  /\ millis = 0
  /\ frameCount = 0
  /\ pc = "idle" /\ idx = 0
  /\ numSettledParticles = 0 /\ numMovingParticles = 0
  /\ movementAmp = 0 /\ movementFilterFreq = 0 /\ baseFreq = 0
  /\ overallSettleAmp = 0
  /\ oscFreq = [i \in 1..NUM_SETTLE_OSCILLATORS |-> 0]
  /\ oscAmp = [i \in 1..NUM_SETTLE_OSCILLATORS |-> 0]
  /\ probe = [i \in 1..NUM_PARTICLES |-> NoProbe]
  /\ lastInput = "none"
  /\ scatterFrame = -1
  /\ scatterCount = 0
  /\ eventCount = 0

\* ------------------------------------------------------------ clock
\* the time that passes in one advance of the clock
ClockStep == SCATTER_DURATION

\* time passes, between frames or between two behave() calls of a frame (an
\* advance before the first or after the last call of a frame reads the same
\* as one between frames)
ClockTick ==
  /\ \/ pc = "idle" /\ frameCount < MaxFrames
     \/ pc = "loop" /\ idx > 1 /\ idx <= Len(particles)
  /\ eventCount < MaxEvents
  /\ millis' = millis + ClockStep
  /\ eventCount' = eventCount + 1
  /\ UNCHANGED <<simVars, soundVars, stableM, stableN, patternShouldForm,
                 lastScatterTime, sliderM, sliderN, audioContextStarted,
                 lastInput, scatterFrame, scatterCount>>

\* ------------------------------------------------------------ draw()
\* draw(), entry: the two tallies start at zero
BeginDraw ==
  /\ pc = "idle"
  /\ frameCount < MaxFrames
  /\ frameCount' = frameCount + 1
  /\ pc' = "loop"
  /\ idx' = 1
  /\ numSettledParticles' = 0
  /\ numMovingParticles' = 0
  /\ UNCHANGED <<particles, probe, millis, soundVars, controlVars>>

\* variant: only settled particles are counted
TallySettledOnly(p, settled, moving) ==
  IF p.isSettled THEN <<settled + 1, moving>> ELSE <<settled, moving>>

\* the tallies after particle p has behaved
Tally(p, settled, moving) ==
  IF p.isSettled THEN <<settled + 1, moving>> ELSE <<settled, moving + 1>>

\* draw(), one round of the for-of loop: behave(), display(), tally
BehaveStep ==
  /\ pc = "loop"
  /\ idx <= Len(particles)
  /\ \E dir \in random2D, p \in {particles[idx]} :
     \E q \in {behave(p, patternShouldForm, millis, dir)} :
       LET counts == Tally(q, numSettledParticles, numMovingParticles)
       IN /\ particles' = [particles EXCEPT ![idx] = q]
          /\ probe' = [probe EXCEPT ![idx] =
               [frame |-> frameCount,
                branch |-> branchOf(p, patternShouldForm, millis),
                triggered |-> scatterCount > 0,
                elapsed |-> millis - lastScatterTime,
                eval |-> latestEval(p, patternShouldForm, millis, @.eval),
                integrated |->
                  integrate(beforeUpdate(p, patternShouldForm, millis, dir)).pos,
                forced |-> forceOf(p, patternShouldForm, millis)]]
          /\ numSettledParticles' = counts[1]
          /\ numMovingParticles' = counts[2]
  /\ idx' = idx + 1
  /\ UNCHANGED <<frameCount, pc, millis, soundVars, controlVars>>

melodicIntervals == <<10, 15, 20, 25>>

\* variant: every voice at the full settle amplitude
OscAmpUndivided(i, settleAmp) ==
  constrain(settleAmp, 0, (4 * AMP) \div 10)

\* draw(), sound generation: the amplitude sent to oscillator i (0-based)
OscAmp(i, settleAmp) ==
  constrain(IF i = 0 THEN settleAmp ELSE (settleAmp * 10) \div 15,
            0, (4 * AMP) \div 10)

\* draw(), sound generation: the frequency sent to oscillator i (0-based)
OscFreq(i, base, frame) ==
  With(melodicIntervals[(i % Len(melodicIntervals)) + 1],
       LAMBDA intervalMultiplier :
         IF i > 0
         THEN (base * intervalMultiplier) \div 10
                + TDiv(sin(frame + 100 * i) * 15 * HZ, 10 * TRIG)
         ELSE (base * intervalMultiplier) \div 10)

\* draw(), after the loop: the sound parameters
Sonify ==
  /\ pc = "loop"
  /\ idx > Len(particles)
  /\ movementAmp' = map(numMovingParticles, 0, NUM_PARTICLES, 0, (5 * AMP) \div 100)
  /\ movementFilterFreq' =
       map(numMovingParticles, 0, NUM_PARTICLES, 100 * HZ, 800 * HZ)
  /\ \E freq \in {calculateFrequencyFromMN(stableM, stableN)} :
       /\ baseFreq' = freq
       /\ oscFreq' = [i \in 1..NUM_SETTLE_OSCILLATORS |->
                        OscFreq(i - 1, freq, frameCount)]
  /\ \E amp \in {map(numSettledParticles, 0, NUM_PARTICLES, 0, (4 * AMP) \div 10)} :
       /\ overallSettleAmp' = amp
       /\ oscAmp' = [i \in 1..NUM_SETTLE_OSCILLATORS |-> OscAmp(i - 1, amp)]
  /\ pc' = "idle"
  /\ UNCHANGED <<particles, probe, frameCount, idx, numSettledParticles,
                 numMovingParticles, millis, controlVars>>

\* ------------------------------------------------------------ controls
\* positions the user can drag a slider to
SliderPositions == {SLIDER_MIN + 1, SLIDER_MAX}

Keys == {"S", "s", "a"}

\* sliderM.input callback, after the slider moved to v
SliderMInput ==
  /\ pc = "idle"
  /\ frameCount < MaxFrames
  /\ eventCount < MaxEvents
  /\ \E v \in SliderPositions :
       /\ sliderM' = v
       /\ stableM' = v
  /\ audioContextStarted' = TRUE
  /\ patternShouldForm' = TRUE
  /\ lastInput' = "slider"
  /\ eventCount' = eventCount + 1
  /\ UNCHANGED <<stableN, sliderN, lastScatterTime, scatterFrame, scatterCount,
                 millis,
                 simVars, soundVars>>

\* sliderN.input callback, after the slider moved to v
SliderNInput ==
  /\ pc = "idle"
  /\ frameCount < MaxFrames
  /\ eventCount < MaxEvents
  /\ \E v \in SliderPositions :
       /\ sliderN' = v
       /\ stableN' = v
  /\ audioContextStarted' = TRUE
  /\ patternShouldForm' = TRUE
  /\ lastInput' = "slider"
  /\ eventCount' = eventCount + 1
  /\ UNCHANGED <<stableM, sliderM, lastScatterTime, scatterFrame, scatterCount,
                 millis,
                 simVars, soundVars>>

\* variant: the trigger resets stableM and the sliders but not stableN
KeyPressedKeepsN ==
  /\ pc = "idle"
  /\ frameCount < MaxFrames
  /\ eventCount < MaxEvents
  /\ \E key \in Keys :
       IF key = "S" \/ key = "s"
       THEN /\ stableM' = 1
            /\ sliderM' = 1
            /\ sliderN' = 1
            /\ patternShouldForm' = FALSE
            /\ lastScatterTime' = millis
            /\ audioContextStarted' = TRUE
            /\ lastInput' = "key"
            /\ scatterFrame' = frameCount
            /\ scatterCount' = scatterCount + 1
            /\ eventCount' = eventCount + 1
            /\ UNCHANGED stableN
       ELSE UNCHANGED <<stableM, stableN, sliderM, sliderN, patternShouldForm,
                        lastScatterTime, audioContextStarted, lastInput,
                        scatterFrame, scatterCount, eventCount>>
  /\ UNCHANGED <<millis, simVars, soundVars>>

\* keyPressed(): S or s resets the modes and triggers the scatter
KeyPressed ==
  /\ pc = "idle"
  /\ frameCount < MaxFrames
  /\ eventCount < MaxEvents
  /\ \E key \in Keys :
       IF key = "S" \/ key = "s"
       THEN /\ stableM' = 1
            /\ stableN' = 1
            /\ sliderM' = 1
            /\ sliderN' = 1
            /\ patternShouldForm' = FALSE
            /\ lastScatterTime' = millis
            /\ audioContextStarted' = TRUE
            /\ lastInput' = "key"
            /\ scatterFrame' = frameCount
            /\ scatterCount' = scatterCount + 1
            /\ eventCount' = eventCount + 1
       ELSE UNCHANGED <<stableM, stableN, sliderM, sliderN, patternShouldForm,
                        lastScatterTime, audioContextStarted, lastInput,
                        scatterFrame, scatterCount, eventCount>>
  /\ UNCHANGED <<millis, simVars, soundVars>>

Next ==
  \/ ClockTick
  \/ BeginDraw
  \/ BehaveStep
  \/ Sonify
  \/ SliderMInput
  \/ SliderNInput
  \/ KeyPressed

Spec == Init /\ [][Next]_vars

\* ------------------------------------------------------------ properties
Processed(i) == probe[i].frame = frameCount /\ frameCount > 0

LoopDone == pc = "loop" /\ idx > Len(particles)

\* tenths of a hertz, rounded to nearest
RoundTenth(f) == (f + HZ \div 20) \div (HZ \div 10)

\* C1: once the scatter window of the latest trigger has elapsed, and with no
\* control input since that trigger, every particle a tick processes goes
\* through the field logic: it is marked settled or gets the descending
\* (gradient-vote) force, and no random impulse is applied.
C1_FieldLogicAfterWindow ==
  \A i \in 1..Len(particles) :
    ( /\ lastInput = "key"
      /\ Processed(i)
      /\ probe[i].frame > scatterFrame
      /\ probe[i].elapsed >= SCATTER_DURATION )
    => /\ probe[i].branch \in {"settled", "descending"}
       /\ particles[i].isSettled = (probe[i].branch = "settled")
       /\ probe[i].forced # "random"

\* C2: at the end of the particle loop of the first tick after a scatter
\* trigger every particle's settled flag is false, settledCount is 0 and
\* movingCount is the particle count.
C2_NextTickAllUnsettled ==
  (scatterCount > 0 /\ frameCount = scatterFrame + 1 /\ LoopDone)
  => /\ \A i \in 1..Len(particles) : ~particles[i].isSettled
     /\ numSettledParticles = 0
     /\ numMovingParticles = Len(particles)

\* C3: a particle takes the scattering branch only if a scatter trigger has
\* occurred and the time read is less than 500 ms after the latest trigger.
C3_ScatterOnlyAfterTrigger ==
  \A i \in 1..Len(particles) :
    probe[i].branch = "scattering"
    => probe[i].triggered /\ probe[i].elapsed < 500

\* C4: a settled particle's latest field evaluation returned a magnitude
\* below the tolerance 0.03.
C4_SettledBelowTolerance ==
  \A i \in 1..Len(particles) :
    particles[i].isSettled
    => probe[i].eval >= 0 /\ probe[i].eval * 100 < 3 * TRIG

C4_Witness ==
  \E i \in 1..Len(particles) :
    /\ particles[i].isSettled
    /\ stableM # stableN
    /\ scatterCount > 0
    /\ probe[i].branch = "settled"

\* C5: at the end of the particle loop settledCount + movingCount is the
\* particle count, and the particle count stays what setup() made it.
C5_TalliesPartition ==
  /\ Len(particles) = NUM_PARTICLES
  /\ LoopDone => numSettledParticles + numMovingParticles = Len(particles)

C5_Witness ==
  LoopDone /\ numSettledParticles > 0 /\ numMovingParticles > 0

\* C6: m and n are always integers in 1..15, and a scatter trigger sets m, n
\* and both sliders to 1 and the scatter start time to the time of the trigger.
C6_ModesInRange ==
  /\ [](stableM \in 1..15 /\ stableN \in 1..15)
  /\ [][scatterCount' # scatterCount
        => /\ stableM' = 1 /\ stableN' = 1
           /\ sliderM' = 1 /\ sliderN' = 1
           /\ lastScatterTime' = millis]_vars

C6_Witness ==
  /\ lastInput = "key"
  /\ scatterCount > 0
  /\ lastScatterTime > 0
  /\ stableM = 1 /\ stableN = 1 /\ sliderM = 1 /\ sliderN = 1

\* C7 as stated: with m = n = 1 the base frequency draw() computes is 51.9 Hz
\* to one decimal place.
C7_BaseFreq519 ==
  [][(pc = "loop" /\ pc' = "idle" /\ stableM = 1 /\ stableN = 1)
     => RoundTenth(baseFreq') = 519]_vars

\* C7 amended: with m = n = 1 the base frequency draw() computes is the linear
\* map of 2.4 from [2,40] to [50,600], which is 55.8 Hz to one decimal place.
C7_BaseFreq558 ==
  [][(pc = "loop" /\ pc' = "idle" /\ stableM = 1 /\ stableN = 1)
     => /\ RoundTenth(baseFreq') = 558
        /\ (baseFreq' - 50 * HZ) * 380 <= 4 * 550 * HZ
        /\ (baseFreq' + 1 - 50 * HZ) * 380 > 4 * 550 * HZ]_vars

C7_Witness ==
  /\ pc = "idle" /\ frameCount > 0
  /\ stableM = 1 /\ stableN = 1
  /\ RoundTenth(baseFreq) = 558

\* C8: after a tick, voice 1's amplitude is settledCount / total * 0.4, each
\* of voices 2 to 4 has that amplitude divided by 1.5, and every amplitude is
\* in [0, 0.4].
C8_VoiceAmplitudes ==
  (pc = "idle" /\ frameCount > 0)
  => /\ oscAmp[1] * 10 * NUM_PARTICLES = numSettledParticles * 4 * AMP
     /\ \A i \in 2..NUM_SETTLE_OSCILLATORS : oscAmp[i] * 15 = oscAmp[1] * 10
     /\ \A i \in 1..NUM_SETTLE_OSCILLATORS :
          oscAmp[i] >= 0 /\ oscAmp[i] * 10 <= 4 * AMP

C8_Witness ==
  /\ pc = "idle" /\ frameCount > 0
  /\ numSettledParticles > 0
  /\ oscAmp[2] > 0

\* C9: every position is on the canvas, and after update() a component the
\* integration put above the canvas size is 0, one put below 0 is the canvas
\* size, and one inside is as integrated.
C9_Wraparound ==
  \A i \in 1..Len(particles) :
    LET r == probe[i].integrated
        q == particles[i].pos
    IN /\ q[1] >= 0 /\ q[1] <= CANVAS_WIDTH
       /\ q[2] >= 0 /\ q[2] <= CANVAS_HEIGHT
       /\ probe[i].frame > 0
          => /\ r[1] > CANVAS_WIDTH => q[1] = 0
             /\ r[1] < 0 => q[1] = CANVAS_WIDTH
             /\ (r[1] >= 0 /\ r[1] <= CANVAS_WIDTH) => q[1] = r[1]
             /\ r[2] > CANVAS_HEIGHT => q[2] = 0
             /\ r[2] < 0 => q[2] = CANVAS_HEIGHT
             /\ (r[2] >= 0 /\ r[2] <= CANVAS_HEIGHT) => q[2] = r[2]

C9_Witness ==
  \E i \in 1..Len(particles) :
    /\ probe[i].frame > 0
    /\ probe[i].integrated[1] > CANVAS_WIDTH
    /\ particles[i].pos[1] = 0

\* C10: within one tick either every particle processed takes the scattering
\* branch or none does.
C10_UniformScatter ==
  \A i, j \in 1..Len(particles) :
    (Processed(i) /\ Processed(j))
    => (probe[i].branch = "scattering") = (probe[j].branch = "scattering")

====
